---------------------------- MODULE Spec2Model ----------------------------
(***************************************************************************)
(* Chunk streaming and meshing of kaylendog/chunky.                        *)
(*                                                                         *)
(* Spec      the streaming coordinator: the per-frame systems              *)
(*           poll_chunk_events (PreUpdate), move_player and                *)
(*           load_chunks_near_player (Update), process_chunk_commands      *)
(*           (PostUpdate), and the AsyncComputeTaskPool workers running    *)
(*           load_chunk / unload_chunk / modify_block in between.          *)
(*                                                                         *)
(* SpecFair  Spec with weak fairness of the systems of the frame and of   *)
(*           the workers: Bevy runs every schedule each frame and the      *)
(*           task pool runs every spawned task.                            *)
(*                                                                         *)
(* SpecMesh  the mesh builder as load_chunk calls it: build(ChunkNeighbours) *)
(*           and ChunkNeighbours::block_at on views drawn from a bounded   *)
(*           family of chunks, with CHUNK_SIZE reduced.                    *)
(*                                                                         *)
(* SpecData  the chunk data model called on bounded arguments:              *)
(*           Chunk::blocks, Chunk::block_at, Ord for BlockPos, Quad::new    *)
(*           with Quad::normal, Quad::faces, triangulize, and               *)
(*           ChunkPos::from_world / to_world.                               *)
(*                                                                         *)
(* ChunkPos is <<x, y, z>>.  The registry is observed on the finite window *)
(* Tracked of chunk positions; the entries of Chunks for two different     *)
(* positions never read or write each other, so the commands for the       *)
(* positions outside the window are left out.                              *)
(***************************************************************************)
EXTENDS Integers, Sequences, FiniteSets, Bags, TLC

VARIABLES
    player,     \* ChunkPos::from_world(player Transform.translation)
    pc,         \* the schedule the coordinator runs next
    busy,       \* Chunks::busy
    chunks,     \* the keys of Chunks::chunks
    events,     \* Events<ChunkCommand> written and not yet read
    tasks,      \* the bag of ChunkTask entities (entities are told apart by their task only)
    spawned,    \* number of ChunkTask entities spawned so far
    rendered,   \* number of PbrBundle entities spawned per chunk position
    crashed,    \* a system of the coordinator has panicked
    view,       \* the ChunkNeighbours handed to the mesh builder
    stage,      \* "idle" | "input" | "built" | "probed"
    quads,      \* the Vec<Quad> of CulledMeshBuilder::build
    mesh,       \* the Mesh of triangulize: positions, indices, normals
    probed,     \* a coordinate and what ChunkNeighbours::block_at returned for it
    arg,        \* the argument a function of the chunk data model is called with
    ret         \* the call made and what it returned

streamVars == <<player, pc, busy, chunks, events, tasks, spawned, rendered, crashed>>

meshVars == <<view, stage, quads, mesh, probed>>

dataVars == <<arg, ret>>

vars == <<streamVars, meshVars, dataVars>>

--------------------------------------------------------------------------
(* Bounds *)

\* ChunkTask entities spawned in one run.
MaxTasks == 5

\* The player visits the chunks <<-k * Far, 0, 0>>, k \in 0..Stops.
Stops == 1

\* Tracked holds the chunks <<dx, 0, 0>>, dx \in 0..Window, of each load cube.
Window == 0

--------------------------------------------------------------------------
(* Coordinate model: src/chunk/mod.rs *)

UNLOAD_DISTANCE == 10

Far == UNLOAD_DISTANCE + 1

Abs(n) == IF n < 0 THEN -n ELSE n

Max2(a, b) == IF a >= b THEN a ELSE b

ChunkPosAdd(a, b) == <<a[1] + b[1], a[2] + b[2], a[3] + b[3]>>

ChunkPosSub(a, b) == <<a[1] - b[1], a[2] - b[2], a[3] - b[3]>>

\* ChunkPos::max: the largest component (signed).
ChunkPosMax(p) == Max2(p[1], Max2(p[2], p[3]))

PlayerChunks == { <<-(k * Far), 0, 0>> : k \in 0..Stops }

\* iproduct!(0..2, 0..2, 0..2), in its order (the last range runs fastest).
LoadCube ==
    << <<0,0,0>>, <<0,0,1>>, <<0,1,0>>, <<0,1,1>>,
       <<1,0,0>>, <<1,0,1>>, <<1,1,0>>, <<1,1,1>> >>

Tracked ==
    { ChunkPosAdd(c, <<dx, 0, 0>>) : c \in PlayerChunks, dx \in 0..Window }

--------------------------------------------------------------------------
(* Chunk registry: src/chunk/mod.rs, impl Chunks *)

is_loaded(pos) == pos \in chunks

is_busy(pos) == pos \in busy

\* is_unloaded, were it to look at the loaded chunks only.
is_unloaded_ignoring_busy(pos) == ~is_loaded(pos)

is_unloaded(pos) == ~is_loaded(pos) /\ ~is_busy(pos)

--------------------------------------------------------------------------
(* Sequences helpers *)


\* Every enumeration order of the finite set S.
Orders(S) ==
    { f \in [1..Cardinality(S) -> S] : \A i, j \in 1..Cardinality(S) : i # j => f[i] # f[j] }

--------------------------------------------------------------------------
(* Proximity scan: src/player.rs, load_chunks_near_player *)

\* The first send_batch: Load for every unloaded position of the cube.
RECURSIVE LoadCommands(_, _)
LoadCommands(c, cube) ==
    IF cube = <<>> THEN <<>>
    ELSE LET pos == ChunkPosAdd(c, Head(cube))
         IN  (IF pos \in Tracked /\ is_unloaded(pos)
              THEN << [kind |-> "Load", pos |-> pos] >>
              ELSE <<>>) \o LoadCommands(c, Tail(cube))

\* distance = (chunk.position - player_chunk).max().abs()
ScanDistance(q, c) == Abs(ChunkPosMax(ChunkPosSub(q, c)))

\* match distance { 0..=10 => None, _ => Some(Unload) }
EmitsUnload(q, c) == ~(0 <= ScanDistance(q, c) /\ ScanDistance(q, c) <= UNLOAD_DISTANCE)

UnloadSet(c) == { q \in chunks : EmitsUnload(q, c) }


move_player(c) ==
    /\ ~crashed
    /\ pc = "Update"
    /\ c \in PlayerChunks
    /\ c # player
    /\ player' = c
    /\ UNCHANGED <<pc, busy, chunks, events, tasks, spawned, rendered, crashed, meshVars, dataVars>>

\* Any system may write the public event ChunkCommand::ModifyBlock; at most one
\* is written per frame here.
send_modify_block(pos) ==
    /\ ~crashed
    /\ pc = "Update"
    /\ pos \in Tracked
    /\ events = <<>>
    /\ spawned < MaxTasks
    /\ events' = << [kind |-> "ModifyBlock", pos |-> pos] >>
    /\ UNCHANGED <<player, pc, busy, chunks, tasks, spawned, rendered, crashed, meshVars, dataVars>>

\* Chunks::iter is a HashMap iteration: the Unload commands come in any order.
load_chunks_near_player ==
    /\ ~crashed
    /\ pc = "Update"
    /\ \E order \in Orders(UnloadSet(player)) :
         LET loads   == LoadCommands(player, LoadCube)
             unloads == [i \in 1..Cardinality(UnloadSet(player)) |->
                            [kind |-> "Unload", pos |-> order[i]]]
         IN  /\ spawned + Len(events) + Len(loads) + Len(unloads) <= MaxTasks
             /\ events' = events \o loads \o unloads
    /\ pc' = "PostUpdate"
    /\ UNCHANGED <<player, busy, chunks, tasks, spawned, rendered, crashed, meshVars, dataVars>>

--------------------------------------------------------------------------
(* Command dispatch: src/chunk/mod.rs, process_chunk_commands *)

NewTask(cmd) ==
    [kind |-> cmd.kind, pos |-> cmd.pos, state |-> "running", seen |-> FALSE]

\* The loop over chunk_commands.read(): Load and Unload insert into busy,
\* ModifyBlock does not; each command spawns one ChunkTask.
RECURSIVE Dispatch(_, _, _, _)
Dispatch(cmds, b, ts, n) ==
    IF cmds = <<>> THEN [busy |-> b, tasks |-> ts, spawned |-> n]
    ELSE LET cmd == Head(cmds)
             b2  == IF cmd.kind \in {"Load", "Unload"} THEN b \cup {cmd.pos} ELSE b
         IN  Dispatch(Tail(cmds), b2, ts (+) SetToBag({NewTask(cmd)}), n + 1)

process_chunk_commands ==
    /\ ~crashed
    /\ pc = "PostUpdate"
    /\ LET r == Dispatch(events, busy, tasks, spawned)
       IN  /\ busy' = r.busy
           /\ tasks' = r.tasks
           /\ spawned' = r.spawned
    /\ events' = <<>>
    /\ pc' = "PreUpdate"
    /\ UNCHANGED <<player, chunks, rendered, crashed, meshVars, dataVars>>

--------------------------------------------------------------------------
(* Background task bodies: src/chunk/mod.rs *)

\* load_chunk always returns Ok(ChunkEvent::LoadComplete(chunk, mesh)).
LoadChunkResult == "ok"

\* unload_chunk always returns Ok(ChunkEvent::UnloadComplete(pos)).
UnloadChunkResult == "ok"

\* modify_block is todo!(): the task panics and is cancelled.
ModifyBlockResult == "panicked"

\* The bag ts with one copy of t replaced by u.
Replace(ts, t, u) == (ts (-) SetToBag({t})) (+) SetToBag({u})

\* Finish, were the task body to release its position itself.
FinishReleasing(t, result) ==
    /\ BagIn(t, tasks)
    /\ t.state = "running"
    /\ tasks' = Replace(tasks, t, [t EXCEPT !.state = result])
    /\ busy' = busy \ {t.pos}
    /\ UNCHANGED <<player, pc, chunks, events, spawned, rendered, crashed, meshVars, dataVars>>

Finish(t, result) ==
    /\ BagIn(t, tasks)
    /\ t.state = "running"
    /\ tasks' = Replace(tasks, t, [t EXCEPT !.state = result])
    /\ UNCHANGED <<player, pc, busy, chunks, events, spawned, rendered, crashed, meshVars, dataVars>>

load_chunk(t) == t.kind = "Load" /\ Finish(t, LoadChunkResult)

unload_chunk(t) == t.kind = "Unload" /\ Finish(t, UnloadChunkResult)

modify_block(t) == t.kind = "ModifyBlock" /\ Finish(t, ModifyBlockResult)

--------------------------------------------------------------------------
(* Completion poll: src/chunk/mod.rs, poll_chunk_events *)

\* block_on(poll_once(&mut task.0)):
\*   "pending"  the task is still running (None)
\*   "event"    Some(Ok(event))
\*   "error"    Some(Err(err))
\*   "panic"    the task panicked, or its output was already taken: awaiting
\*              it panics in the polling system
PollOnce(t) ==
    CASE t.state = "running"  -> "pending"
      [] t.state = "ok"       -> "event"
      [] t.state = "err"      -> "error"
      [] OTHER                -> "panic"

\* ApplyEvent, were UnloadComplete to clear the whole chunks map.
ApplyEventClearing(t, r) ==
    IF t.kind = "Load"
    THEN [r EXCEPT !.chunks = @ \cup {t.pos},
                   !.meshes = [@ EXCEPT ![t.pos] = @ + 1]]
    ELSE [r EXCEPT !.chunks = {},
                   !.busy = @ \ {t.pos}]

\* match event { LoadComplete => spawn the mesh, chunks.insert;
\*               UnloadComplete => chunks.remove, busy.remove }
ApplyEvent(t, r) ==
    IF t.kind = "Load"
    THEN [r EXCEPT !.chunks = @ \cup {t.pos},
                   !.meshes = [@ EXCEPT ![t.pos] = @ + 1]]
    ELSE [r EXCEPT !.chunks = @ \ {t.pos},
                   !.busy = @ \ {t.pos}]

\* The task as the poll leaves it: its output is gone.
Polled(t) ==
    [t EXCEPT !.seen = TRUE,
              !.state = IF t.state = "panicked" THEN "panicked" ELSE "taken"]

\* PollTask, were the poll to release the position of a task that failed.
PollTaskReleasing(t, r) ==
    LET o == PollOnce(t)
    IN  CASE o = "pending" -> r
          [] o = "event"   -> [ApplyEvent(t, r) EXCEPT
                                  !.live = @ (-) SetToBag({t}),
                                  !.kept = Replace(@, t, Polled(t))]
          [] OTHER         -> [r EXCEPT !.panicked = (o = "panic"),
                                        !.busy = @ \ {t.pos},
                                        !.live = Replace(@, t, Polled(t)),
                                        !.kept = Replace(@, t, Polled(t))]

\* One item of tasks.iter_mut().filter_map(..).for_each(..): only an item that
\* passes the filter_map (an Ok event) reaches commands.entity(entity).despawn().
\* r.live is the bag of entities once the commands are applied, r.kept the bag
\* if they are dropped.
PollTask(t, r) ==
    LET o == PollOnce(t)
    IN  CASE o = "pending" -> r
          [] o = "event"   -> [ApplyEvent(t, r) EXCEPT
                                  !.live = @ (-) SetToBag({t}),
                                  !.kept = Replace(@, t, Polled(t))]
          [] o = "error"   -> [r EXCEPT !.live = Replace(@, t, Polled(t)),
                                        !.kept = Replace(@, t, Polled(t))]
          [] OTHER         -> [r EXCEPT !.panicked = TRUE,
                                        !.live = Replace(@, t, Polled(t)),
                                        !.kept = Replace(@, t, Polled(t))]

Ready(ts) == { t \in BagToSet(ts) : PollOnce(t) # "pending" }

\* The query iterates the entities in any order: every result of polling the
\* entities of the bag todo one after the other, starting from r.  A panic
\* ends the pass.
RECURSIVE PollAll(_, _)
PollAll(todo, r) ==
    IF r.panicked \/ Ready(todo) = {} THEN {r}
    ELSE UNION { PollAll(todo (-) SetToBag({t}), PollTask(t, r)) : t \in Ready(todo) }

\* Commands (despawn, spawn) are applied when the system returns; a panic of the
\* system drops them.
poll_chunk_events ==
    /\ ~crashed
    /\ pc = "PreUpdate"
    /\ \E r \in PollAll(tasks, [chunks |-> chunks, busy |-> busy,
                                meshes |-> [p \in Tracked |-> 0],
                                live |-> tasks, kept |-> tasks, panicked |-> FALSE]) :
         /\ chunks' = r.chunks
         /\ busy' = r.busy
         /\ crashed' = r.panicked
         /\ IF r.panicked
            THEN /\ tasks' = r.kept
                 /\ rendered' = rendered
                 /\ pc' = pc
            ELSE /\ tasks' = r.live
                 /\ rendered' = [p \in Tracked |-> rendered[p] + r.meshes[p]]
                 /\ pc' = "Update"
    /\ UNCHANGED <<player, events, spawned, meshVars, dataVars>>

--------------------------------------------------------------------------
(* The streaming coordinator *)

\* spawn_player puts the player at Vec3(0, 0, 10): chunk <<0, 0, 0>>.
Init ==
    /\ player = <<0, 0, 0>>
    /\ pc = "PreUpdate"
    /\ busy = {}
    /\ chunks = {}
    /\ events = <<>>
    /\ tasks = EmptyBag
    /\ spawned = 0
    /\ rendered = [p \in Tracked |-> 0]
    /\ crashed = FALSE
    /\ view = "none"
    /\ stage = "idle"
    /\ quads = <<>>
    /\ mesh = [positions |-> <<>>, indices |-> <<>>, normals |-> <<>>]
    /\ probed = "none"
    /\ arg = "none"
    /\ ret = "none"

Next ==
    \/ poll_chunk_events
    \/ \E c \in PlayerChunks : move_player(c)
    \/ \E pos \in Tracked : send_modify_block(pos)
    \/ load_chunks_near_player
    \/ process_chunk_commands
    \/ \E t \in BagToSet(tasks) : load_chunk(t)
    \/ \E t \in BagToSet(tasks) : unload_chunk(t)
    \/ \E t \in BagToSet(tasks) : modify_block(t)

Spec == Init /\ [][Next]_vars

\* A worker of the AsyncComputeTaskPool runs a spawned task body.
RunTask ==
    \E t \in BagToSet(tasks) : load_chunk(t) \/ unload_chunk(t) \/ modify_block(t)

\* The schedules run every frame and the task pool runs every spawned task;
\* the player and the senders of ModifyBlock are free to act or not.
SpecFair ==
    /\ Spec
    /\ WF_vars(poll_chunk_events)
    /\ WF_vars(load_chunks_near_player)
    /\ WF_vars(process_chunk_commands)
    /\ WF_vars(RunTask)


--------------------------------------------------------------------------
(* Blocks and chunks: src/chunk/mod.rs *)

\* The size of a chunk along one axis (32 in the source, reduced here).
CHUNK_SIZE == 2

CHUNK_SIZE_MINUS_ONE == CHUNK_SIZE - 1

CHUNK_SIZE_PLUS_ONE == CHUNK_SIZE + 1

\* An `as u8` cast of an i32.
U8(n) == n % 256

NORTH == <<0, 0, -1>>
EAST  == <<1, 0, 0>>
SOUTH == <<0, 0, 1>>
WEST  == <<-1, 0, 0>>
UP    == <<0, 1, 0>>
DOWN  == <<0, -1, 0>>

\* iproduct!(0..CHUNK_SIZE, 0..CHUNK_SIZE, 0..CHUNK_SIZE): x runs slowest, z fastest.
BlockPos_all ==
    [i \in 1..(CHUNK_SIZE * CHUNK_SIZE * CHUNK_SIZE) |->
        << (i - 1) \div (CHUNK_SIZE * CHUNK_SIZE),
           ((i - 1) \div CHUNK_SIZE) % CHUNK_SIZE,
           (i - 1) % CHUNK_SIZE >>]

AllBlockPos == { BlockPos_all[i] : i \in DOMAIN BlockPos_all }

is_opaque(block) == block = "Stone"

\* Chunk { position, data: BTreeMap::new() }
Chunk_empty(position) == [position |-> position, data |-> [p \in {} |-> "Empty"]]

\* self.data.insert(pos, block)
Chunk_set_block(chunk, pos, block) ==
    [chunk EXCEPT !.data = (pos :> block) @@ @]

\* for pos in BlockPos::all() { self.set_block(pos, block) }
Chunk_fill(chunk, block) ==
    [chunk EXCEPT !.data = [p \in AllBlockPos |-> block] @@ @]

Chunk_filled(chunk, block) == Chunk_fill(chunk, block)

\* self.data.get(&pos).unwrap_or(&BlockType::Empty)
Chunk_block_at(chunk, pos) ==
    IF pos \in DOMAIN chunk.data THEN chunk.data[pos] ELSE "Empty"

--------------------------------------------------------------------------
(* Neighbour view: src/chunk/mesh/mod.rs, ChunkNeighbours *)

\* The match of ChunkNeighbours::block_at: the chunk of the view and the
\* BlockPos in it that the coordinate v is read from.
Resolve(v) ==
    LET x == v[1]
        y == v[2]
        z == v[3]
    IN  IF x = -1 THEN [field |-> "west", pos |-> <<CHUNK_SIZE_MINUS_ONE, U8(y), U8(z)>>]
        ELSE IF x = CHUNK_SIZE_PLUS_ONE THEN [field |-> "east", pos |-> <<0, U8(y), U8(z)>>]
        ELSE IF y = -1 THEN [field |-> "down", pos |-> <<U8(x), CHUNK_SIZE_MINUS_ONE, U8(z)>>]
        ELSE IF y = CHUNK_SIZE_PLUS_ONE THEN [field |-> "up", pos |-> <<U8(x), 0, U8(z)>>]
        ELSE IF z = -1 THEN [field |-> "south", pos |-> <<U8(x), U8(y), CHUNK_SIZE_MINUS_ONE>>]
        ELSE IF z = CHUNK_SIZE_PLUS_ONE THEN [field |-> "north", pos |-> <<U8(x), U8(y), 0>>]
        ELSE [field |-> "chunk", pos |-> <<U8(x), U8(y), U8(z)>>]

ChunkNeighbours_block_at(n, v) ==
    Chunk_block_at(n[Resolve(v).field], Resolve(v).pos)

--------------------------------------------------------------------------
(* Quads: src/chunk/mesh/mod.rs *)

X == <<1, 0, 0>>
Y == <<0, 1, 0>>
Z == <<0, 0, 1>>

Neg(v) == <<-v[1], -v[2], -v[3]>>

VAdd(a, b) == <<a[1] + b[1], a[2] + b[2], a[3] + b[3]>>

VSub(a, b) == <<a[1] - b[1], a[2] - b[2], a[3] - b[3]>>

Scale(v, k) == <<v[1] * k, v[2] * k, v[3] * k>>

Cross(a, b) ==
    << a[2] * b[3] - a[3] * b[2],
       a[3] * b[1] - a[1] * b[3],
       a[1] * b[2] - a[2] * b[1] >>

Sgn(n) == IF n > 0 THEN 1 ELSE IF n < 0 THEN -1 ELSE 0

\* Vec3::normalize of an integer vector: exact along an axis; any other vector
\* is kept with its length unresolved.
Normalize(v) ==
    IF Cardinality({ i \in 1..3 : v[i] # 0 }) = 1
    THEN <<Sgn(v[1]), Sgn(v[2]), Sgn(v[3])>>
    ELSE [unnormalized |-> v]

\* f32::MANTISSA_DIGITS: the integers up to 2^24 in magnitude are exact in f32.
F32_MANTISSA_DIGITS == 24

RECURSIVE Pow2(_)
Pow2(k) == IF k = 0 THEN 1 ELSE 2 * Pow2(k - 1)

\* The spacing of the f32 values around the integer n.
RECURSIVE Spacing(_, _)
Spacing(n, u) ==
    IF Abs(n) <= Pow2(F32_MANTISSA_DIGITS) * u THEN u ELSE Spacing(n, 2 * u)

\* `n as f32` of an i32 or u32: the nearest f32, ties to even.
F32(n) ==
    LET u == Spacing(n, 1)
        q == n \div u
        r == n % u
    IN  IF 2 * r < u THEN q * u
        ELSE IF 2 * r > u THEN (q + 1) * u
        ELSE IF q % 2 = 0 THEN q * u ELSE (q + 1) * u

\* IVec3::as_vec3
as_vec3(v) == <<F32(v[1]), F32(v[2]), F32(v[3])>>

\* Vec3 + Vec3 of integer-valued vectors: the exact sum, rounded to f32.
FAdd(a, b) == <<F32(a[1] + b[1]), F32(a[2] + b[2]), F32(a[3] + b[3])>>

\* Vec3::as_ivec3 truncates toward zero; the vectors here are integer-valued.
as_ivec3(v) == v

\* Quad_new, were right the cross product of up and the normal.
Quad_new_clockwise(pos, direction, width, height) ==
    LET normal == direction
        up     == IF direction = Y \/ direction = Neg(Y) THEN X ELSE Y
        right  == Cross(up, normal)
        a == as_vec3(pos)
        b == FAdd(as_vec3(pos), Scale(up, F32(height)))
        c == FAdd(FAdd(as_vec3(pos), Scale(up, F32(height))), Scale(right, F32(width)))
        d == FAdd(as_vec3(pos), Scale(right, F32(width)))
    IN  [vertices |-> <<as_ivec3(a), as_ivec3(b), as_ivec3(c), as_ivec3(d)>>]

Quad_new(pos, direction, width, height) ==
    LET normal == direction
        up     == IF direction = Y \/ direction = Neg(Y) THEN X ELSE Y
        right  == Cross(normal, up)
        a == as_vec3(pos)
        b == FAdd(as_vec3(pos), Scale(up, F32(height)))
        c == FAdd(FAdd(as_vec3(pos), Scale(up, F32(height))), Scale(right, F32(width)))
        d == FAdd(as_vec3(pos), Scale(right, F32(width)))
    IN  [vertices |-> <<as_ivec3(a), as_ivec3(b), as_ivec3(c), as_ivec3(d)>>]

Quad_square(pos, direction) == Quad_new(pos, direction, 1, 1)

Quad_normal(quad) ==
    LET a  == quad.vertices[1]
        ab == VSub(quad.vertices[2], a)
        ac == VSub(quad.vertices[3], a)
        ad == VSub(quad.vertices[4], a)
    IN  Normalize(VAdd(Cross(ab, ac), Cross(ac, ad)))

\* TriangulizeStep, were the second triangle wound (0,3,2).
TriangulizeStepRewound(quad, m) ==
    LET start  == Len(m.positions)
        normal == Quad_normal(quad)
    IN  [positions |-> m.positions \o quad.vertices,
         indices   |-> m.indices \o
             <<start, start + 1, start + 2, start, start + 3, start + 2>>,
         normals   |-> m.normals \o <<normal, normal, normal, normal>>]

\* The body of the loop of triangulize for one quad, on the buffers m.
TriangulizeStep(quad, m) ==
    LET start  == Len(m.positions)
        normal == Quad_normal(quad)
    IN  [positions |-> m.positions \o quad.vertices,
         indices   |-> m.indices \o
             <<start, start + 1, start + 2, start, start + 2, start + 3>>,
         normals   |-> m.normals \o <<normal, normal, normal, normal>>]

\* The buffers after the quads of a are followed by the quads of b: each
\* index of b starts at positions.len(), which is Len(a.positions) by then.
MeshConcat(a, b) ==
    [positions |-> a.positions \o b.positions,
     indices   |-> a.indices \o
         [i \in 1..Len(b.indices) |-> b.indices[i] + Len(a.positions)],
     normals   |-> a.normals \o b.normals]

EmptyMesh == [positions |-> <<>>, indices |-> <<>>, normals |-> <<>>]

\* for quad in quads: the quads lo..hi in order (the range is halved to keep
\* the evaluation shallow).
RECURSIVE TriangulizeLoop(_, _, _)
TriangulizeLoop(qs, lo, hi) ==
    IF lo > hi THEN EmptyMesh
    ELSE IF lo = hi THEN TriangulizeStep(qs[lo], EmptyMesh)
    ELSE LET mid == (lo + hi) \div 2
         IN  MeshConcat(TriangulizeLoop(qs, lo, mid), TriangulizeLoop(qs, mid + 1, hi))

triangulize(qs) == TriangulizeLoop(qs, 1, Len(qs))

--------------------------------------------------------------------------
(* Culling mesh builder: src/chunk/mesh/culled.rs *)

\* The closure that build hands to mesh_direction for each pass: the
\* coordinate of the view that the loop position pos is read at.
Closure(pass, pos) ==
    CASE pass = "east"  -> <<pos[1], pos[2], pos[3]>>
      [] pass = "west"  -> <<CHUNK_SIZE - pos[1], pos[2], pos[3]>>
      [] pass = "south" -> <<pos[2], pos[1], pos[3]>>
      [] pass = "north" -> <<CHUNK_SIZE - pos[2], pos[1], pos[3]>>
      [] pass = "up"    -> <<pos[3], pos[1], pos[2]>>
      [] pass = "down"  -> <<CHUNK_SIZE - pos[3], pos[1], pos[2]>>

\* The body of the loop of mesh_direction for one (x, y, z): the quad pushed,
\* if any.  The previous block is one step along X whatever dir is.
MeshStep(n, pass, dir, pos) ==
    IF is_opaque(ChunkNeighbours_block_at(n, Closure(pass, pos))) THEN <<>>
    ELSE IF is_opaque(ChunkNeighbours_block_at(n, Closure(pass, VSub(pos, X)))) THEN <<>>
    ELSE << Quad_square(pos, dir) >>

\* for (x, y, z) in iproduct!(...): the positions lo..hi of the loop in order
\* (the range is halved to keep the evaluation shallow).
RECURSIVE MeshLoop(_, _, _, _, _)
MeshLoop(n, pass, dir, lo, hi) ==
    IF lo > hi THEN <<>>
    ELSE IF lo = hi THEN MeshStep(n, pass, dir, BlockPos_all[lo])
    ELSE LET mid == (lo + hi) \div 2
         IN  MeshLoop(n, pass, dir, lo, mid) \o MeshLoop(n, pass, dir, mid + 1, hi)

mesh_direction(qs, n, pass, dir) ==
    qs \o MeshLoop(n, pass, dir, 1, Len(BlockPos_all))

\* The quads of CulledMeshBuilder::build before triangulize.
CulledQuads(n) ==
    LET q1 == mesh_direction(<<>>, n, "east", X)
        q2 == mesh_direction(q1, n, "west", Neg(X))
        q3 == mesh_direction(q2, n, "south", Y)
        q4 == mesh_direction(q3, n, "north", Neg(Y))
        q5 == mesh_direction(q4, n, "up", Z)
        q6 == mesh_direction(q5, n, "down", Neg(Z))
    IN  q6

--------------------------------------------------------------------------
(* The mesh builder on bounded inputs *)

HomePos == <<0, 0, 0>>

\* The home chunks: generate_mut on an empty chunk sets Stone blocks only; at
\* most one here.  And the two uniform chunks.
HomeChunks ==
    {Chunk_empty(HomePos)}
    \cup { Chunk_set_block(Chunk_empty(HomePos), b, "Stone") : b \in AllBlockPos }
    \cup { Chunk_filled(Chunk_empty(HomePos), "Stone"),
           Chunk_filled(Chunk_empty(HomePos), "Empty") }

\* A neighbour is Chunk::empty(pos) or, as in load_chunk, that chunk filled
\* with Stone.
Neighbour(pos, solid) ==
    IF solid THEN Chunk_filled(Chunk_empty(pos), "Stone") ELSE Chunk_empty(pos)

\* The ChunkNeighbours that load_chunk builds around the chunk home.
MakeView(home, solid) ==
    [chunk |-> home,
     north |-> Neighbour(ChunkPosAdd(home.position, NORTH), solid.north),
     east  |-> Neighbour(ChunkPosAdd(home.position, EAST), solid.east),
     south |-> Neighbour(ChunkPosAdd(home.position, SOUTH), solid.south),
     west  |-> Neighbour(ChunkPosAdd(home.position, WEST), solid.west),
     up    |-> Neighbour(ChunkPosAdd(home.position, UP), solid.up),
     down  |-> Neighbour(ChunkPosAdd(home.position, DOWN), solid.down)]

Views ==
    { MakeView(home, solid) :
        home \in HomeChunks,
        solid \in [{"north", "east", "south", "west", "up", "down"} -> BOOLEAN] }

InRange(k) == 0 <= k /\ k < CHUNK_SIZE

\* The coordinates block_at is asked for: at most one axis off the chunk.
ProbeCoords ==
    { v \in (-1..CHUNK_SIZE_PLUS_ONE) \X (-1..CHUNK_SIZE_PLUS_ONE) \X (-1..CHUNK_SIZE_PLUS_ONE) :
        Cardinality({ i \in 1..3 : ~InRange(v[i]) }) <= 1 }

\* mesh::build(data) = CulledMeshBuilder::build(data)
build ==
    /\ stage = "input"
    /\ quads' = CulledQuads(view)
    /\ mesh' = triangulize(quads')
    /\ stage' = "built"
    /\ UNCHANGED <<view, probed, streamVars, dataVars>>

block_at(v) ==
    /\ stage = "input"
    /\ probed' = [at |-> v, block |-> ChunkNeighbours_block_at(view, v)]
    /\ stage' = "probed"
    /\ UNCHANGED <<view, quads, mesh, streamVars, dataVars>>

InitMesh ==
    /\ player = <<0, 0, 0>>
    /\ pc = "PreUpdate"
    /\ busy = {}
    /\ chunks = {}
    /\ events = <<>>
    /\ tasks = EmptyBag
    /\ spawned = 0
    /\ rendered = [p \in Tracked |-> 0]
    /\ crashed = FALSE
    /\ view \in Views
    /\ stage = "input"
    /\ quads = <<>>
    /\ mesh = [positions |-> <<>>, indices |-> <<>>, normals |-> <<>>]
    /\ probed = "none"
    /\ arg = "none"
    /\ ret = "none"

NextMesh ==
    \/ build
    \/ \E v \in ProbeCoords : block_at(v)

SpecMesh == InitMesh /\ [][NextMesh]_vars

--------------------------------------------------------------------------
(* Chunk data model on bounded inputs: src/chunk/mod.rs, src/chunk/mesh/mod.rs *)

\* Stone blocks that generate_mut sets in one chunk.
MaxStones == 2

\* Length of the quad lists handed to triangulize.
MaxQuads == 3

\* Width and height of the quads handed to Quad::new.
MaxSide == 2

\* The small anchors handed to Quad::new have their coordinates in -Reach..Reach.
Reach == 1

\* u8::cmp
Cmp(a, b) == IF a < b THEN "Less" ELSE IF a > b THEN "Greater" ELSE "Equal"

\* Ordering::then_with
then_with(o, next) == IF o = "Equal" THEN next ELSE o

\* BlockPos_cmp, were the order x, then y, then z.
BlockPos_cmp_xyz(a, b) ==
    then_with(then_with(Cmp(a[1], b[1]), Cmp(a[2], b[2])), Cmp(a[3], b[3]))

\* impl Ord for BlockPos: self.z.cmp, then x, then y.
BlockPos_cmp(a, b) ==
    then_with(then_with(Cmp(a[3], b[3]), Cmp(a[1], b[1])), Cmp(a[2], b[2]))

\* The filter_map of Chunk::blocks over the positions lo..hi of BlockPos::all()
\* (the range is halved to keep the evaluation shallow).
RECURSIVE BlocksLoop(_, _, _)
BlocksLoop(chunk, lo, hi) ==
    IF lo > hi THEN <<>>
    ELSE IF lo = hi
         THEN (IF BlockPos_all[lo] \in DOMAIN chunk.data
               THEN << <<BlockPos_all[lo], chunk.data[BlockPos_all[lo]]>> >>
               ELSE <<>>)
    ELSE LET mid == (lo + hi) \div 2
         IN  BlocksLoop(chunk, lo, mid) \o BlocksLoop(chunk, mid + 1, hi)

\* Chunk::blocks, collected.
Chunk_blocks(chunk) == BlocksLoop(chunk, 1, Len(BlockPos_all))

\* Chunk::generate_mut, the noise being positive exactly at the positions S.
generate_mut(chunk, S) == [chunk EXCEPT !.data = [p \in S |-> "Stone"] @@ @]

\* The chunks of load_chunk (generated from empty) and the filled chunks.
DataChunks ==
    { generate_mut(Chunk_empty(HomePos), S) :
        S \in { S \in SUBSET AllBlockPos : Cardinality(S) <= MaxStones } }
    \cup { Chunk_filled(Chunk_empty(HomePos), b) : b \in {"Stone", "Empty"} }

\* BlockPos values, one step past the chunk included.
BlockPosArgs == (0..CHUNK_SIZE) \X (0..CHUNK_SIZE) \X (0..CHUNK_SIZE)

Dir3s == {X, Neg(X), Y, Neg(Y), Z, Neg(Z)}

\* Anchor coordinates: around the origin, and at the end of the exact range of
\* f32.
AnchorCoords ==
    (-Reach..Reach)
    \cup { Pow2(F32_MANTISSA_DIGITS) - MaxSide, -(Pow2(F32_MANTISSA_DIGITS) - MaxSide),
           Pow2(F32_MANTISSA_DIGITS), Pow2(F32_MANTISSA_DIGITS) + 1 }

\* The quad lists handed to triangulize: unit squares at the origin.
QuadLists ==
    UNION { [1..n -> { Quad_square(<<0, 0, 0>>, d) : d \in Dir3s }] : n \in 0..MaxQuads }

\* Quad_faces, were the up face anchored at (x, y + 1, z).
Quad_faces_up_unshifted(pos) ==
    LET x == pos[1]
        y == pos[2]
        z == pos[3]
    IN  << Quad_square(<<x, y, z>>, Neg(Z)),
           Quad_square(<<x + 1, y, z>>, X),
           Quad_square(<<x + 1, y, z + 1>>, Z),
           Quad_square(<<x, y, z + 1>>, Neg(X)),
           Quad_square(<<x, y + 1, z>>, Y),
           Quad_square(<<x, y, z>>, Neg(Y)) >>

\* Quad::faces: north, east, south, west, up, down.
Quad_faces(pos) ==
    LET x == pos[1]
        y == pos[2]
        z == pos[3]
    IN  << Quad_square(<<x, y, z>>, Neg(Z)),
           Quad_square(<<x + 1, y, z>>, X),
           Quad_square(<<x + 1, y, z + 1>>, Z),
           Quad_square(<<x, y, z + 1>>, Neg(X)),
           Quad_square(<<x, y + 1, z + 1>>, Y),
           Quad_square(<<x, y, z>>, Neg(Y)) >>

\* BlockPos coordinates handed to Quad::faces: those of a chunk, and u8::MAX.
FaceCoords == (0..CHUNK_SIZE_MINUS_ONE) \cup { U8(-1) }

\* i64 / i64 with a positive divisor: the quotient is truncated toward zero.
I64Div(a, b) == IF a >= 0 THEN a \div b ELSE -((-a) \div b)

\* `x as i64` of an f32 truncates toward zero; the values here are integer-valued.
as_i64(x) == x

\* ChunkPos::from_world
ChunkPos_from_world(pos) ==
    << I64Div(as_i64(pos[1]), CHUNK_SIZE),
       I64Div(as_i64(pos[2]), CHUNK_SIZE),
       I64Div(as_i64(pos[3]), CHUNK_SIZE) >>

\* ChunkPos::to_world: self.x as f32 * CHUNK_SIZE as f32, the product rounded to
\* f32.
ChunkPos_to_world(c) ==
    << F32(F32(c[1]) * F32(CHUNK_SIZE)),
       F32(F32(c[2]) * F32(CHUNK_SIZE)),
       F32(F32(c[3]) * F32(CHUNK_SIZE)) >>

\* World coordinates: two chunks on either side of the origin.
WorldCoords == (-(2 * CHUNK_SIZE))..(2 * CHUNK_SIZE)

\* Chunk coordinates: around the origin, and one past the exact range of f32.
ChunkCoords == (-Reach..Reach) \cup { Pow2(F32_MANTISSA_DIGITS) + 1 }

\* The arguments of the calls.
Args ==
    { [kind |-> "chunk", chunk |-> c] : c \in DataChunks }
    \cup { [kind |-> "positions", a |-> a, b |-> b] : a \in AllBlockPos, b \in AllBlockPos }
    \cup [kind : {"quad"},
          pos : AnchorCoords \X AnchorCoords \X AnchorCoords,
          direction : Dir3s, width : 1..MaxSide, height : 1..MaxSide]
    \cup { [kind |-> "quads", quads |-> qs] : qs \in QuadLists }
    \cup [kind : {"world"}, pos : WorldCoords \X WorldCoords \X WorldCoords]
    \cup [kind : {"chunkpos"}, pos : ChunkCoords \X ChunkCoords \X ChunkCoords]
    \cup [kind : {"block"}, pos : FaceCoords \X FaceCoords \X FaceCoords]

call_blocks ==
    /\ arg.kind = "chunk"
    /\ ret.op = "none"
    /\ ret' = [op |-> "blocks", result |-> Chunk_blocks(arg.chunk)]
    /\ UNCHANGED <<arg, streamVars, meshVars>>

call_block_at(pos) ==
    /\ arg.kind = "chunk"
    /\ ret.op = "none"
    /\ ret' = [op |-> "block_at", pos |-> pos, result |-> Chunk_block_at(arg.chunk, pos)]
    /\ UNCHANGED <<arg, streamVars, meshVars>>

call_cmp ==
    /\ arg.kind = "positions"
    /\ ret.op = "none"
    /\ ret' = [op |-> "cmp", result |-> BlockPos_cmp(arg.a, arg.b)]
    /\ UNCHANGED <<arg, streamVars, meshVars>>

call_new ==
    /\ arg.kind = "quad"
    /\ ret.op = "none"
    /\ LET quad == Quad_new(arg.pos, arg.direction, arg.width, arg.height)
       IN  ret' = [op |-> "new", quad |-> quad, normal |-> Quad_normal(quad)]
    /\ UNCHANGED <<arg, streamVars, meshVars>>

call_triangulize ==
    /\ arg.kind = "quads"
    /\ ret.op = "none"
    /\ ret' = [op |-> "triangulize", mesh |-> triangulize(arg.quads)]
    /\ UNCHANGED <<arg, streamVars, meshVars>>

call_from_world ==
    /\ arg.kind = "world"
    /\ ret.op = "none"
    /\ ret' = [op |-> "from_world", result |-> ChunkPos_from_world(arg.pos)]
    /\ UNCHANGED <<arg, streamVars, meshVars>>

call_to_world ==
    /\ arg.kind = "chunkpos"
    /\ ret.op = "none"
    /\ LET world == ChunkPos_to_world(arg.pos)
       IN  ret' = [op |-> "to_world", world |-> world, back |-> ChunkPos_from_world(world)]
    /\ UNCHANGED <<arg, streamVars, meshVars>>

call_faces ==
    /\ arg.kind = "block"
    /\ ret.op = "none"
    /\ LET faces == Quad_faces(arg.pos)
       IN  ret' = [op |-> "faces", quads |-> faces,
                   normals |-> [i \in 1..Len(faces) |-> Quad_normal(faces[i])]]
    /\ UNCHANGED <<arg, streamVars, meshVars>>

InitData ==
    /\ player = <<0, 0, 0>>
    /\ pc = "PreUpdate"
    /\ busy = {}
    /\ chunks = {}
    /\ events = <<>>
    /\ tasks = EmptyBag
    /\ spawned = 0
    /\ rendered = [p \in Tracked |-> 0]
    /\ crashed = FALSE
    /\ view = "none"
    /\ stage = "idle"
    /\ quads = <<>>
    /\ mesh = [positions |-> <<>>, indices |-> <<>>, normals |-> <<>>]
    /\ probed = "none"
    /\ arg \in Args
    /\ ret = [op |-> "none"]

NextData ==
    \/ call_blocks
    \/ \E pos \in BlockPosArgs : call_block_at(pos)
    \/ call_cmp
    \/ call_new
    \/ call_triangulize
    \/ call_from_world
    \/ call_to_world
    \/ call_faces

SpecData == InitData /\ [][NextData]_vars

--------------------------------------------------------------------------
(* Properties of the streaming coordinator, checked under Spec *)

\* The load and unload tasks for pos that are dispatched and not yet applied.
InFlight(pos) ==
    LET S == { t \in BagToSet(tasks) :
                 /\ t.pos = pos
                 /\ t.kind \in {"Load", "Unload"}
                 /\ t.state \in {"running", "ok"} }
    IN  BagCardinality([t \in S |-> tasks[t]])

\* max(|q.x - c.x|, |q.y - c.y|, |q.z - c.z|)
Chebyshev(q, c) ==
    Max2(Abs(q[1] - c[1]), Max2(Abs(q[2] - c[2]), Abs(q[3] - c[3])))

\* C1: every chunk position is in exactly one of unloaded / busy / loaded: no
\* position is a member of busy and a key of chunks at the same time.
C1_ExactlyOneState ==
    \A pos \in Tracked : ~(is_busy(pos) /\ is_loaded(pos))

\* C2: from the dispatch of Load(p) until the LoadComplete of that task is
\* applied by poll_chunk_events, p is busy.
C2_BusyUntilLoadComplete ==
    \A t \in BagToSet(tasks) :
        (t.kind = "Load" /\ t.state \in {"running", "ok"}) => is_busy(t.pos)

\* C3: at most one load or unload task is in flight per chunk position.
C3_OneTaskPerPosition ==
    \A pos \in Tracked : InFlight(pos) <= 1

\* C4: a task whose result a poll pass has observed, success or failure, is
\* retired in that pass: no ChunkTask entity that was observed finished remains.
C4_FinishedTaskRetired ==
    \A t \in BagToSet(tasks) : ~t.seen

\* C5: a failing task never crashes the coordinator: no poll pass panics, also
\* after a ModifyBlock command was dispatched.
C5_CoordinatorSurvives ==
    ~crashed

\* C6: when the proximity scan has run, Unload(q) is among the commands of the
\* frame, for a loaded chunk q, iff the Chebyshev distance of q to the player's
\* chunk exceeds UNLOAD_DISTANCE.
C6_UnloadIffChebyshevFar ==
    pc = "PostUpdate" =>
        \A q \in chunks :
            (\E i \in 1..Len(events) : events[i] = [kind |-> "Unload", pos |-> q])
                <=> Chebyshev(q, player) > UNLOAD_DISTANCE


--------------------------------------------------------------------------
(* Properties of the mesh builder, checked under SpecMesh *)

Dirs == {X, Neg(X), Y, Neg(Y), Z, Neg(Z)}

\* The axis of the direction d.
Axis(d) == CHOOSE i \in 1..3 : d[i] # 0

\* The corners of the unit cube of block b that lie on its side d.
FaceCorners(b, d) ==
    { VAdd(b, o) : o \in { o \in {0, 1} \X {0, 1} \X {0, 1} :
                            o[Axis(d)] = (IF d[Axis(d)] = 1 THEN 1 ELSE 0) } }

\* The quad is the unit face of block b in direction d.
IsFace(quad, b, d) ==
    /\ { quad.vertices[k] : k \in 1..4 } = FaceCorners(b, d)
    /\ Quad_normal(quad) = d

AllSolid == [f \in {"north", "east", "south", "west", "up", "down"} |-> TRUE]

NoneSolid == [f \in {"north", "east", "south", "west", "up", "down"} |-> FALSE]

\* The chunk of the view at ChunkPos home + off.
NeighbourAt(n, off) ==
    CHOOSE c \in {n.north, n.east, n.south, n.west, n.up, n.down} :
        c.position = ChunkPosAdd(n.chunk.position, off)

\* v is -1 or CHUNK_SIZE on exactly one axis and in range on the other two.
OnBoundary(v) ==
    /\ Cardinality({ i \in 1..3 : ~InRange(v[i]) }) = 1
    /\ \A i \in 1..3 : InRange(v[i]) \/ v[i] = -1 \/ v[i] = CHUNK_SIZE

OffAxis(v) == CHOOSE i \in 1..3 : ~InRange(v[i])

\* The step to the neighbour chunk that v lies in.
Toward(v) == [i \in 1..3 |-> IF i = OffAxis(v) THEN (IF v[i] = -1 THEN -1 ELSE 1) ELSE 0]

\* The block of that neighbour, on its plane facing the home chunk.
Facing(v) ==
    [i \in 1..3 |-> IF i = OffAxis(v)
                    THEN (IF v[i] = -1 THEN CHUNK_SIZE - 1 ELSE 0)
                    ELSE v[i]]

\* C7: the quad list of build holds the unit face of block b in direction d
\* iff b is a Stone block of the home chunk and the block beyond that face,
\* through ChunkNeighbours::block_at, is not opaque; every quad is such a face.
C7_FaceIffVisible ==
    stage = "built" =>
        /\ \A b \in AllBlockPos, d \in Dirs :
              (\E i \in 1..Len(quads) : IsFace(quads[i], b, d))
                <=> /\ Chunk_block_at(view.chunk, b) = "Stone"
                    /\ ~is_opaque(ChunkNeighbours_block_at(view, VAdd(b, d)))
        /\ \A i \in 1..Len(quads) :
              \E b \in AllBlockPos, d \in Dirs :
                  /\ IsFace(quads[i], b, d)
                  /\ Chunk_block_at(view.chunk, b) = "Stone"

\* C8: for a coordinate that is -1 or CHUNK_SIZE on exactly one axis,
\* ChunkNeighbours::block_at returns the block on the facing boundary plane of
\* the neighbour chunk adjacent in that direction.
C8_BoundaryReadsNeighbour ==
    (stage = "probed" /\ OnBoundary(probed.at)) =>
        probed.block = Chunk_block_at(NeighbourAt(view, Toward(probed.at)), Facing(probed.at))

\* C9: a home chunk filled with Stone among 6 neighbours filled with Stone is
\* meshed into 0 quads, 0 vertices and 0 indices.
C9_EnclosedChunkEmptyMesh ==
    (stage = "built" /\ view = MakeView(Chunk_filled(Chunk_empty(HomePos), "Stone"), AllSolid)) =>
        /\ Len(quads) = 0
        /\ Len(mesh.positions) = 0
        /\ Len(mesh.indices) = 0

\* C10: a home chunk with exactly one Stone block among 6 empty neighbours is
\* meshed into exactly 6 quads, 24 vertices and 36 indices.
C10_SingleBlockSixQuads ==
    (/\ stage = "built"
     /\ \E b \in AllBlockPos :
          view = MakeView(Chunk_set_block(Chunk_empty(HomePos), b, "Stone"), NoneSolid)) =>
        /\ Len(quads) = 6
        /\ Len(mesh.positions) = 24
        /\ Len(mesh.indices) = 36

--------------------------------------------------------------------------
(* Further properties of the streaming coordinator, checked under Spec *)

\* C11: a position in busy has an outstanding load or unload task: one that
\* was dispatched and whose result was not yet applied to the registry.
C11_BusyHasOutstandingTask ==
    \A pos \in Tracked : is_busy(pos) => InFlight(pos) >= 1

\* The result of the task is a failure: an Err, or a panic of its body.
Failed(t) == t.state \in {"err", "panicked"}

\* C12: a poll pass leaves the registry as it was as far as a failed task is
\* concerned: unless a successful task for the same position is applied in the
\* pass, the position of a failed task is in busy and in chunks after the pass
\* iff it was before, and no render object is spawned for it; a pass in which
\* every finished task failed changes neither busy, chunks nor the render
\* objects.
C12_FailedTaskNoMutation ==
    [][ poll_chunk_events =>
          /\ \A t \in BagToSet(tasks) :
                (Failed(t) /\ ~\E u \in BagToSet(tasks) : u.pos = t.pos /\ u.state = "ok")
                  => /\ (t.pos \in busy') = (t.pos \in busy)
                     /\ (t.pos \in chunks') = (t.pos \in chunks)
                     /\ rendered'[t.pos] = rendered[t.pos]
          /\ (\A u \in Ready(tasks) : Failed(u))
                  => /\ busy' = busy
                     /\ chunks' = chunks
                     /\ rendered' = rendered ]_vars

\* C12 witness: a poll pass has observed a failed task whose position is busy.
C12_Witness ==
    \E t \in BagToSet(tasks) : t.seen /\ t.state = "panicked" /\ is_busy(t.pos)

\* The load and unload tasks dispatched and not yet applied.
Outstanding ==
    { t \in BagToSet(tasks) : t.kind \in {"Load", "Unload"} /\ t.state \in {"running", "ok"} }

\* Those tasks once every one of them has completed.
Completed == SetToBag({ [t EXCEPT !.state = "ok"] : t \in Outstanding })

\* The registries (chunks, busy) that poll_chunk_events can reach from the
\* current one by applying the completed tasks, over every order of polling
\* them.  Tasks polled in separate passes are applied to the same registry one
\* after the other, so the orders of PollAll cover the passes as well.
Registries ==
    { <<r.chunks, r.busy>> :
        r \in PollAll(Completed, [chunks |-> chunks, busy |-> busy,
                                  meshes |-> [p \in Tracked |-> 0],
                                  live |-> Completed, kept |-> Completed,
                                  panicked |-> FALSE]) }

\* C13: when the outstanding load and unload tasks target pairwise distinct
\* positions, the registry reached after all of them have completed and been
\* applied is the same for every order in which they are polled.
C13_OrderIndependent ==
    (\A pos \in Tracked : InFlight(pos) <= 1) => Cardinality(Registries) = 1

\* C13 witness: a load and an unload for two different positions are
\* outstanding together, the unload for a loaded chunk.
C13_Witness ==
    /\ \A pos \in Tracked : InFlight(pos) <= 1
    /\ \E t, u \in Outstanding :
          /\ t.kind = "Load" /\ u.kind = "Unload" /\ t.pos # u.pos
          /\ is_loaded(u.pos)

\* A step of a worker of the AsyncComputeTaskPool running a task body.
WorkerStep ==
    \E t \in BagToSet(tasks) : load_chunk(t) \/ unload_chunk(t) \/ modify_block(t)

\* C14: a step in which a worker runs load_chunk, unload_chunk or modify_block
\* leaves busy and chunks unchanged; busy and chunks change only in steps of
\* process_chunk_commands and poll_chunk_events.
C14_WorkersLeaveRegistry ==
    [][ /\ WorkerStep => (busy' = busy /\ chunks' = chunks)
        /\ (busy' # busy \/ chunks' # chunks)
              => (process_chunk_commands \/ poll_chunk_events) ]_vars

\* C14 witness: a worker has run a task body to its end for a busy position.
C14_Witness ==
    \E t \in BagToSet(tasks) : t.state = "ok" /\ ~t.seen /\ is_busy(t.pos)

--------------------------------------------------------------------------
(* Properties of the chunk data model, checked under SpecData *)

\* a sorts before b when (z, x, y) of a is lexicographically smaller.
ZxyLess(a, b) ==
    \/ a[3] < b[3]
    \/ a[3] = b[3] /\ a[1] < b[1]
    \/ a[3] = b[3] /\ a[1] = b[1] /\ a[2] < b[2]

\* C15: Chunk::blocks yields its pairs in ascending BlockPos order: of two
\* consecutive yielded positions the first is less than the second in the
\* ordering z, then x, then y.
C15_BlocksAscending ==
    ret.op = "blocks" =>
        \A i \in 1..(Len(ret.result) - 1) :
            ZxyLess(ret.result[i][1], ret.result[i + 1][1])

\* C16: Chunk::block_at panics when a component of pos is outside
\* [0, CHUNK_SIZE), and returns the stored block, or Empty for an absent entry,
\* for an in-range pos.
C16_BlockAtPanicsOutOfRange ==
    ret.op = "block_at" =>
        IF \A i \in 1..3 : InRange(ret.pos[i])
        THEN ret.result = (IF ret.pos \in DOMAIN arg.chunk.data
                           THEN arg.chunk.data[ret.pos] ELSE "Empty")
        ELSE ret.result = "panic"

\* C17: triangulize of n quads gives 4n vertices, 4n normals and 6n indices;
\* the 4 normals of a quad are identical; every index is below 4n; quad k
\* (0-based) contributes the indices 4k, 4k+1, 4k+2, 4k, 4k+2, 4k+3 in order.
C17_TriangulizeCounts ==
    ret.op = "triangulize" =>
        LET n == Len(arg.quads)
            m == ret.mesh
        IN  /\ Len(m.positions) = 4 * n
            /\ Len(m.normals) = 4 * n
            /\ Len(m.indices) = 6 * n
            /\ \A i \in 1..Len(m.indices) : m.indices[i] < 4 * n
            /\ \A k \in 0..(n - 1) :
                  /\ \A j \in 1..4 : m.normals[4 * k + j] = m.normals[4 * k + 1]
                  /\ [j \in 1..6 |-> m.indices[6 * k + j]]
                        = <<4 * k, 4 * k + 1, 4 * k + 2, 4 * k, 4 * k + 2, 4 * k + 3>>

\* C17 witness: triangulize has run on a list of at least two quads with
\* different normals.
C17_Witness ==
    /\ ret.op = "triangulize"
    /\ Len(arg.quads) >= 2
    /\ ret.mesh.normals[1] # ret.mesh.normals[5]

Dot(a, b) == a[1] * b[1] + a[2] * b[2] + a[3] * b[3]

\* The vertices of the quad built lie in the plane through the anchor
\* perpendicular to the direction, form a width x height rectangle with a
\* corner at the anchor, and the cross-product sum that Quad::normal computes
\* from their winding has a positive dot product with the direction.
RectangleFacingDirection ==
    LET v  == ret.quad.vertices
        ab == VSub(v[2], v[1])
        ac == VSub(v[3], v[1])
        ad == VSub(v[4], v[1])
    IN  /\ v[1] = arg.pos
        /\ \A k \in 1..4 : Dot(VSub(v[k], arg.pos), arg.direction) = 0
        /\ ac = VAdd(ab, ad)
        /\ Dot(ab, ad) = 0
        /\ Dot(ab, ab) = arg.height * arg.height
        /\ Dot(ad, ad) = arg.width * arg.width
        /\ Dot(VAdd(Cross(ab, ac), Cross(ac, ad)), arg.direction) > 0

\* C18: for every integer anchor, each of the 6 axis directions and widths and
\* heights >= 1, the 4 vertices of Quad::new(anchor, direction, width, height)
\* are coplanar in the plane through the anchor perpendicular to the
\* direction, form a width x height rectangle, and the normal recomputed from
\* the winding points into the half-space of the direction.
C18_QuadRectangleFacesDirection ==
    ret.op = "new" => RectangleFacingDirection

\* Every coordinate of the anchor, moved by the width or the height, is an
\* integer that f32 holds exactly.
AnchorExactInF32 ==
    \A i \in 1..3 :
        /\ Abs(arg.pos[i]) + arg.width <= Pow2(F32_MANTISSA_DIGITS)
        /\ Abs(arg.pos[i]) + arg.height <= Pow2(F32_MANTISSA_DIGITS)

\* C18 (amended): the same, for the anchors whose coordinates stay within the
\* integers exact in f32 once moved by the width or the height.
C18_QuadRectangleWithinF32 ==
    (ret.op = "new" /\ AnchorExactInF32) => RectangleFacingDirection

\* C18 witness: Quad::new has built a 2 x 1 quad facing down, off the origin.
C18_Witness ==
    /\ ret.op = "new"
    /\ arg.direction = Neg(Y)
    /\ arg.width = 2 /\ arg.height = 1
    /\ arg.pos = <<1, -1, 0>>

\* C19: BlockPos::cmp is a strict total order comparing z, then x, then y:
\* a < b iff (a.z, a.x, a.y) is lexicographically smaller, Equal iff a = b,
\* Greater iff b < a; and the order is transitive.
C19_ZxyTotalOrder ==
    ret.op = "cmp" =>
        /\ (ret.result = "Less") = ZxyLess(arg.a, arg.b)
        /\ (ret.result = "Equal") = (arg.a = arg.b)
        /\ (ret.result = "Greater") = ZxyLess(arg.b, arg.a)
        /\ \A c \in AllBlockPos :
              (ret.result = "Less" /\ BlockPos_cmp(arg.b, c) = "Less")
                  => BlockPos_cmp(arg.a, c) = "Less"

\* C19 witness: (1,0,0) was compared with (0,0,1) and ordered before it.
C19_Witness ==
    /\ ret.op = "cmp"
    /\ arg.a = <<1, 0, 0>> /\ arg.b = <<0, 0, 1>>
    /\ ret.result = "Less"

\* C20: no pair that Chunk::blocks yields has the block Empty, also for a
\* chunk whose map stores Empty at every position.
C20_BlocksSkipEmpty ==
    ret.op = "blocks" =>
        \A i \in 1..Len(ret.result) : ret.result[i][2] # "Empty"

--------------------------------------------------------------------------
(* Behaviour of the pipeline over frames, checked under Spec and SpecFair *)

\* The frame cannot go on within MaxTasks: the end of the bounded run.
RunEnded ==
    /\ pc = "Update"
    /\ spawned + Len(events) + Len(LoadCommands(player, LoadCube))
          + Cardinality(UnloadSet(player)) > MaxTasks

\* C21: every Load(p) accepted by process_chunk_commands is eventually
\* followed by a state in which p is a key of chunks, and every Unload(p)
\* accepted by a state in which p is not a key of chunks.
C21_AcceptedEventuallyApplied ==
    \A p \in Tracked :
        /\ (\E t \in Outstanding : t.kind = "Load" /\ t.pos = p)
              ~> (is_loaded(p) \/ RunEnded)
        /\ (\E t \in Outstanding : t.kind = "Unload" /\ t.pos = p)
              ~> (~is_loaded(p) \/ RunEnded)

\* The commands one run of load_chunks_near_player appends to the event queue.
Scanned == SubSeq(events', Len(events) + 1, Len(events'))

InCube(q) == \E i \in 1..Len(LoadCube) : q = ChunkPosAdd(player, LoadCube[i])

C23_RenderObjectsTrackRegistry ==
    \A p \in Tracked :
        /\ rendered[p] <= 1
        /\ p \notin chunks => rendered[p] = 0

\* The pipeline is at rest around the player chunk c: every position of the cube
\* is loaded, no task and no command is outstanding, and the scan has nothing to
\* load or unload.
Quiet(c) ==
    /\ \A q \in Tracked :
          (\E i \in 1..Len(LoadCube) : q = ChunkPosAdd(c, LoadCube[i])) => q \in chunks
    /\ tasks = EmptyBag
    /\ events = <<>>
    /\ \A q \in chunks : ~EmitsUnload(q, c)

\* C24: if the player's chunk stays constant from some frame on, the pipeline
\* eventually comes to rest around it and stays at rest.
C24_Quiescence ==
    \A c \in PlayerChunks :
        <>[](player = c) => <>[](Quiet(c) \/ RunEnded)

--------------------------------------------------------------------------
(* World and chunk coordinates, checked under SpecData *)

\* C25: ChunkPos::from_world maps a world point with integer coordinates to the
\* chunk whose cube contains it, c * CHUNK_SIZE <= p < (c + 1) * CHUNK_SIZE on
\* every axis, and from_world(to_world(c)) = c for every chunk position c.
C25_FromWorldContains ==
    /\ ret.op = "from_world" =>
          \A a \in 1..3 :
              /\ ret.result[a] * CHUNK_SIZE <= arg.pos[a]
              /\ arg.pos[a] < (ret.result[a] + 1) * CHUNK_SIZE
    /\ ret.op = "to_world" => ret.back = arg.pos

--------------------------------------------------------------------------
(* The faces of a block, checked under SpecData *)

\* The quad lies in the plane where coordinate a equals v.
InPlane(quad, a, v) == \A k \in 1..4 : quad.vertices[k][a] = v

\* The unit vector along axis a, toward the high side (s = 1) or the low side
\* (s = 0).
Outward(a, s) == [k \in 1..3 |-> IF k = a THEN 2 * s - 1 ELSE 0]

\* C26: Quad::faces returns 6 quads whose vertices are corners of the unit cube
\* of the block, one quad in each of the 6 face planes of the cube, and the
\* winding normal of each quad points away from the centre of the cube.
C26_FacesCoverCubeOutward ==
    ret.op = "faces" =>
        /\ Len(ret.quads) = 6
        /\ \A i \in 1..Len(ret.quads) : \A k \in 1..4 : \A a \in 1..3 :
              ret.quads[i].vertices[k][a] \in {arg.pos[a], arg.pos[a] + 1}
        /\ \A a \in 1..3 : \A s \in {0, 1} :
              \E i \in 1..Len(ret.quads) :
                  /\ InPlane(ret.quads[i], a, arg.pos[a] + s)
                  /\ ret.normals[i] = Outward(a, s)
                  /\ \A j \in 1..Len(ret.quads) :
                        InPlane(ret.quads[j], a, arg.pos[a] + s) => j = i

\* Quad::faces has run for the block (1, 0, 1): its up face starts at
\* (1, 1, 2) and faces up.
C26_Witness ==
    /\ ret.op = "faces"
    /\ arg.pos = <<1, 0, 1>>
    /\ ret.quads[5].vertices[1] = <<1, 1, 2>>
    /\ ret.normals[5] = Y

==========================================================================
